---- MODULE Spec2Model ----
(***************************************************************************)
(* Model of the notebook                                                   *)
(*   inference_pipeline_sparkml_blazingtext_dbpedia.ipynb                  *)
(* run top to bottom as one sequential script.  Each code statement that   *)
(* talks to a remote service is one action; the remote services (S3, Glue, *)
(* SageMaker training / hosting / batch transform) are the environment and *)
(* own the variables marked "remote".  An exception that no handler        *)
(* catches stops the script: pc = "halted", haltedAt = the failing step.   *)
(***************************************************************************)
EXTENDS Naturals, Sequences, FiniteSets, TLC

\* ---------------------------------------------------------------- bounds
\* The query and sleep counters of the poll loop stop counting here.
MaxCount == 4
\* Longest batch input file, in lines.
MaxLines == 3

\* ------------------------------------------------------------- constants
\* time.sleep(30) of the poll loop, in seconds.
SleepSeconds == 30
\* Timeout=60 of create_job, in minutes.
JobTimeoutMinutes == 60
Account == "123456789012"
Regions == {"us-east-1", "us-west-2"}
Timestamps == {"2019-01-01-00-00-00", "2019-01-01-00-00-30"}

\* The texts a request or a batch line can carry (the two sample payloads).
Texts == {"convair", "berwick"}

\* JobRunState values of a Glue job run.
NonFinalStates == {"STARTING", "RUNNING", "STOPPING"}
FinalStates == {"STOPPED", "SUCCEEDED", "FAILED", "TIMEOUT"}
JobRunStates == NonFinalStates \cup FinalStates
\* The terminal values of the poller's contract.
TerminalValues == {"SUCCEEDED", "FAILED", "STOPPED"}

\* Outcomes of s3.create_bucket: success, the two kinds of ClientError the
\* handler tells apart, and an exception that is no ClientError.
CreateBucketOutcomes ==
    {"Created", "BucketAlreadyOwnedByYou", "AccessDenied", "EndpointConnectionError"}
ClientErrorCodes == {"BucketAlreadyOwnedByYou", "AccessDenied"}

VARIABLES
    pc, haltedAt,                 \* control: next statement, where it stopped
    error_code, region, default_bucket, calls,
    params,                       \* the literals of the pipeline and predict cells
    bucketExists, s3Objects,      \* remote: S3
    timestamp_prefix,
    s3_input_bucket, s3_input_key_prefix,
    s3_output_bucket, s3_output_key_prefix,
    s3_model_bucket, s3_model_key_prefix,
    job_name, job_run_id,
    glueJobs, jobRunArgs, jobRunState,      \* remote: Glue
    job_run_status, queries, sleeps, sleepsSinceQuery, sleepDelays, firstTerminal,
    queryFailed,
    s3_train_data, s3_validation_data,
    trainingStatus, trainingInputs,         \* remote: SageMaker training
    training_job_name,                      \* the job bt_model.fit started
    sparkml_data, model_name, sm_model,
    registeredModels,                        \* remote: SageMaker models
    endpoint_name,
    endpoint,                                \* remote: SageMaker endpoint
    invocations, responses,
    batchInput,
    transformJob, batchPos, batchOutput      \* remote: batch transform job

ctl == <<pc, haltedAt>>
misc == <<error_code, region, default_bucket, params>>
s3v == <<bucketExists, s3Objects>>
locs == <<timestamp_prefix, s3_input_bucket, s3_input_key_prefix,
          s3_output_bucket, s3_output_key_prefix,
          s3_model_bucket, s3_model_key_prefix>>
gluev == <<job_name, job_run_id, glueJobs, jobRunArgs, jobRunState>>
pollv == <<job_run_status, queries, sleeps, sleepsSinceQuery, sleepDelays,
           firstTerminal, queryFailed>>
trainv == <<s3_train_data, s3_validation_data, trainingStatus, trainingInputs,
            training_job_name>>
pipev == <<sparkml_data, model_name, sm_model, registeredModels>>
epv == <<endpoint_name, endpoint, invocations, responses>>
batchv == <<batchInput, transformJob, batchPos, batchOutput>>

vars == <<ctl, misc, calls, s3v, locs, gluev, pollv, trainv, pipev, epv, batchv>>

\* ---------------------------------------------------------------- helpers
\* 's3://{}/{}/{}'.format(a, b, c)
S3Uri(a, b, c) == "s3://" \o a \o "/" \o b \o "/" \o c

Call(op, arg) == [op |-> op, arg |-> arg]

\* An uncaught exception at statement `step`.
Halt(step) == pc' = "halted" /\ haltedAt' = step

Goto(next) == pc' = next /\ haltedAt' = haltedAt

\* All sequences over S of length 0..n.
SeqsUpTo(S, n) == UNION {[1..k -> S] : k \in 0..n}

NoModel == [name |-> "", models |-> <<>>]
NoEndpoint == [name |-> "", model |-> "", status |-> "None"]
NoJob == [status |-> "None", model_name |-> "", data |-> "", content_type |-> "",
          split_type |-> "", strategy |-> "", assemble_with |-> "", accept |-> "",
          output_path |-> ""]

\* json.dumps(schema): input "abstract" (string), output "tokenized_abstract".
schema_json == "abstract:string->tokenized_abstract:string[]"

\* A schema a request can carry in its own payload.
PayloadSchema == "text:string->tokenized_text:string[]"

JsonLinesText == "application/jsonlines;data=text"
CONTENT_TYPE_CSV == "text/csv"
CONTENT_TYPE_JSON == "application/json"

\* The literals of the script: the accept override of the SparkML model, the
\* text of the CSV payload, the text of the JSON payload (which carries no
\* schema of its own).
ScriptParams ==
    [accept |-> JsonLinesText, csv_text |-> "convair", json_text |-> "berwick",
     json_schema |-> ""]

\* The texts a request can carry: each is one CSV field.
RequestTexts == {"convair", "berwick"}

\* Other values of the same literals: an accept the second container does
\* not parse, one text in both payloads, a schema inside the JSON payload.
ParamChoices ==
    {ScriptParams} \cup
    {[accept |-> a, csv_text |-> t, json_text |-> t, json_schema |-> sc] :
        a \in {JsonLinesText, CONTENT_TYPE_CSV}, t \in RequestTexts,
        sc \in {"", PayloadSchema}}

InitState ==
    /\ pc = "create_bucket" /\ haltedAt = "none"
    /\ error_code = ""
    /\ region \in Regions
    /\ default_bucket = "aws-glue-" \o Account \o "-" \o region
    /\ calls = <<>>
    /\ bucketExists \in BOOLEAN
    /\ s3Objects = {}
    /\ timestamp_prefix = ""
    /\ s3_input_bucket = "" /\ s3_input_key_prefix = ""
    /\ s3_output_bucket = "" /\ s3_output_key_prefix = ""
    /\ s3_model_bucket = "" /\ s3_model_key_prefix = ""
    /\ job_name = "" /\ job_run_id = ""
    /\ glueJobs = {} /\ jobRunArgs = <<>> /\ jobRunState = "NONE"
    /\ job_run_status = "" /\ queries = 0 /\ sleeps = 0
    /\ sleepsSinceQuery = 0 /\ sleepDelays = {} /\ firstTerminal = ""
    /\ queryFailed = FALSE
    /\ s3_train_data = "" /\ s3_validation_data = ""
    /\ trainingStatus = "None" /\ trainingInputs = <<>>
    /\ training_job_name = ""
    /\ sparkml_data = "" /\ model_name = "" /\ sm_model = NoModel
    /\ registeredModels = {}
    /\ endpoint_name = "" /\ endpoint = NoEndpoint
    /\ invocations = <<>> /\ responses = <<>>
    /\ batchInput = <<>>
    /\ transformJob = NoJob /\ batchPos = 0 /\ batchOutput = <<>>

\* The script as written.
Init == params = ScriptParams /\ InitState

\* The script with other literals in the pipeline and predict cells.
ParamInit == params \in ParamChoices /\ InitState

\* ------------------------------------------------------- bucket and uploads
\* The call the try block makes: the region decides its arguments.
CreateBucketCall ==
    IF region = "us-east-1"
    THEN Call("create_bucket", default_bucket)
    ELSE Call("create_bucket", default_bucket \o "@" \o region)

\* Mutant: the handler ends with a bare raise.
CreateBucketReraises(outcome) == outcome # "Created"

\* Whether the except clause lets the exception of `outcome` go on upwards.
\* `except ClientError` catches every ClientError; its body neither raises
\* again nor tells the codes apart beyond printing a notice.
CreateBucketRaises(outcome) == outcome \notin ({"Created"} \cup ClientErrorCodes)

\* try: create_bucket ... except ClientError as e: ...
CreateBucket ==
    /\ pc = "create_bucket"
    /\ \E outcome \in CreateBucketOutcomes :
        /\ (outcome = "Created") => ~bucketExists
        /\ (outcome = "BucketAlreadyOwnedByYou") => bucketExists
        /\ calls' = Append(calls, CreateBucketCall)
        /\ bucketExists' = (bucketExists \/ outcome = "Created")
        /\ error_code' = IF outcome \in ClientErrorCodes THEN outcome ELSE error_code
        /\ IF CreateBucketRaises(outcome)
           THEN Halt("create_bucket")
           ELSE Goto("upload_train")
    /\ UNCHANGED <<region, default_bucket, params, s3Objects, locs, gluev, pollv,
                   trainv, pipev, epv, batchv>>

\* sess.upload_data(path, bucket, key_prefix): puts key_prefix/path into the
\* bucket, or raises when the bucket is missing or the transfer fails.
UploadData(step, next, path, bucket, key_prefix) ==
    /\ pc = step
    /\ calls' = Append(calls, Call("upload_data", S3Uri(bucket, key_prefix, path)))
    /\ \E ok \in BOOLEAN :
        IF ok /\ bucketExists
        THEN /\ s3Objects' = s3Objects \cup {key_prefix \o "/" \o path}
             /\ Goto(next)
        ELSE /\ s3Objects' = s3Objects
             /\ Halt(step)
    /\ UNCHANGED <<misc, bucketExists, locs, gluev, pollv, trainv, pipev, epv>>

UploadTrain ==
    /\ UploadData("upload_train", "upload_test", "train.csv", default_bucket,
                  "input/dbpedia")
    /\ UNCHANGED batchv

UploadTest ==
    /\ UploadData("upload_test", "upload_script", "test.csv", default_bucket,
                  "input/dbpedia")
    /\ UNCHANGED batchv

UploadScript ==
    /\ UploadData("upload_script", "upload_python_dep", "dbpedia_processing.py",
                  default_bucket, "codes")
    /\ UNCHANGED batchv

UploadPythonDep ==
    /\ UploadData("upload_python_dep", "upload_jar_dep", "python.zip",
                  default_bucket, "dependencies/python")
    /\ UNCHANGED batchv

UploadJarDep ==
    /\ UploadData("upload_jar_dep", "define_locations", "mleap_spark_assembly.jar",
                  default_bucket, "dependencies/jar")
    /\ UNCHANGED batchv

\* ------------------------------------------------------------ Glue job
\* timestamp_prefix = strftime(...) and the six location variables.
DefineLocations ==
    /\ pc = "define_locations"
    /\ \E ts \in Timestamps :
        /\ timestamp_prefix' = ts
        /\ s3_input_bucket' = default_bucket
        /\ s3_input_key_prefix' = "input/dbpedia"
        /\ s3_output_bucket' = default_bucket
        /\ s3_output_key_prefix' = ts \o "/dbpedia"
        /\ s3_model_bucket' = default_bucket
        /\ s3_model_key_prefix' = (ts \o "/dbpedia") \o "/mleap"
    /\ Goto("create_job")
    /\ UNCHANGED <<misc, calls, s3v, gluev, pollv, trainv, pipev, epv, batchv>>

\* glue_client.create_job(Name=job_name, ..., Timeout=60)
CreateJob ==
    /\ pc = "create_job"
    /\ job_name' = "sparkml-dbpedia-" \o timestamp_prefix
    /\ calls' = Append(calls, Call("create_job", job_name'))
    /\ \E ok \in BOOLEAN :
        IF ok
        THEN /\ glueJobs' = glueJobs \cup
                             {[name |-> job_name', timeout |-> JobTimeoutMinutes]}
             /\ Goto("start_job_run")
        ELSE /\ glueJobs' = glueJobs
             /\ Halt("create_job")
    /\ UNCHANGED <<misc, s3v, locs, job_run_id, jobRunArgs, jobRunState,
                   pollv, trainv, pipev, epv, batchv>>

JobDefined(name) == \E j \in glueJobs : j.name = name

\* The Arguments dictionary of start_job_run.
JobRunArguments ==
    [S3_INPUT_BUCKET |-> s3_input_bucket,
     S3_INPUT_KEY_PREFIX |-> s3_input_key_prefix,
     S3_OUTPUT_BUCKET |-> s3_output_bucket,
     S3_OUTPUT_KEY_PREFIX |-> s3_output_key_prefix,
     S3_MODEL_BUCKET |-> s3_model_bucket,
     S3_MODEL_KEY_PREFIX |-> s3_model_key_prefix]

\* job_run_id = glue_client.start_job_run(JobName=job_name, Arguments=...)
StartJobRun ==
    /\ pc = "start_job_run"
    /\ calls' = Append(calls, Call("start_job_run", job_name))
    /\ \E ok \in BOOLEAN :
        IF ok /\ JobDefined(job_name)
        THEN /\ jobRunArgs' = <<JobRunArguments>>
             /\ jobRunState' = "STARTING"
             /\ job_run_id' = "jr_1"
             /\ Goto("poll_init")
        ELSE /\ UNCHANGED <<jobRunArgs, jobRunState, job_run_id>>
             /\ Halt("start_job_run")
    /\ UNCHANGED <<misc, s3v, locs, job_name, glueJobs, pollv, trainv, pipev,
                   epv, batchv>>

\* The states a job run can move to from state s; a final state is kept.
GlueSuccessors(s) ==
    CASE s = "STARTING" -> {"RUNNING", "STOPPING"} \cup FinalStates
      [] s = "RUNNING" -> {"STOPPING"} \cup FinalStates
      [] s = "STOPPING" -> FinalStates
      [] OTHER -> {}

\* The remote job run moves on by itself.
GlueProgress ==
    /\ jobRunState \in NonFinalStates
    /\ jobRunState' \in GlueSuccessors(jobRunState)
    /\ UNCHANGED <<ctl, misc, calls, s3v, locs, job_name, job_run_id, glueJobs,
                   jobRunArgs, pollv, trainv, pipev, epv, batchv>>

\* ----------------------------------------------------------- the poll loop
\* The statuses that end the loop: ('FAILED', 'SUCCEEDED', 'STOPPED').
PollTerminal == {"FAILED", "SUCCEEDED", "STOPPED"}

\* Mutant: 'STOPPED' left out of the tuple.
LoopContinuesWithoutStopped(status) == status \notin {"FAILED", "SUCCEEDED"}

\* Mutant: `in` written for `not in`.
LoopContinuesInverted(status) == status \in PollTerminal

\* while job_run_status not in ('FAILED', 'SUCCEEDED', 'STOPPED'):
LoopContinues(status) == status \notin PollTerminal

Count(n) == IF n < MaxCount THEN n + 1 ELSE n

\* Mutant: the query is wrapped in try/except and the loop goes on.
GetJobRunSwallowing(step, next) ==
    /\ pc = step
    /\ \E ok \in BOOLEAN :
        IF ok
        THEN /\ job_run_status' = jobRunState
             /\ queries' = Count(queries)
             /\ sleepsSinceQuery' = 0
             /\ firstTerminal' = IF firstTerminal = "" /\ jobRunState \in TerminalValues
                                 THEN jobRunState ELSE firstTerminal
             /\ UNCHANGED queryFailed
        ELSE /\ queryFailed' = TRUE
             /\ queries' = Count(queries)
             /\ UNCHANGED <<job_run_status, sleepsSinceQuery, firstTerminal>>
    /\ Goto(next)
    /\ UNCHANGED <<misc, calls, s3v, locs, gluev, sleeps, sleepDelays, trainv,
                   pipev, epv, batchv>>

\* glue_client.get_job_run(...)['JobRun']['JobRunState'] assigned to
\* job_run_status at statement `step`; an error of the call is not caught.
GetJobRun(step, next) ==
    /\ pc = step
    /\ \E ok \in BOOLEAN :
        IF ok
        THEN /\ job_run_status' = jobRunState
             /\ queries' = Count(queries)
             /\ sleepsSinceQuery' = 0
             /\ firstTerminal' = IF firstTerminal = "" /\ jobRunState \in TerminalValues
                                 THEN jobRunState ELSE firstTerminal
             /\ UNCHANGED queryFailed
             /\ Goto(next)
        ELSE /\ queryFailed' = TRUE
             /\ queries' = Count(queries)
             /\ UNCHANGED <<job_run_status, sleepsSinceQuery, firstTerminal>>
             /\ Halt(step)
    /\ UNCHANGED <<misc, calls, s3v, locs, gluev, sleeps, sleepDelays, trainv,
                   pipev, epv, batchv>>

\* The query before the loop.
PollInit == GetJobRun("poll_init", "poll_test")

\* The loop condition.
PollTest ==
    /\ pc = "poll_test"
    /\ IF LoopContinues(job_run_status)
       THEN Goto("poll_query")
       ELSE Goto("prepare_training")
    /\ UNCHANGED <<misc, calls, s3v, locs, gluev, pollv, trainv, pipev, epv, batchv>>

\* The query of the loop body, and its print.
PollQuery == GetJobRun("poll_query", "poll_sleep")

\* Mutant: the body sleeps before the query as well as after it.
PollSleepTwice ==
    /\ pc = "poll_sleep"
    /\ sleeps' = Count(Count(sleeps))
    /\ sleepsSinceQuery' = Count(Count(sleepsSinceQuery))
    /\ sleepDelays' = sleepDelays \cup {SleepSeconds}
    /\ Goto("poll_test")
    /\ UNCHANGED <<misc, calls, s3v, locs, gluev, job_run_status, queries,
                   firstTerminal, queryFailed, trainv, pipev, epv, batchv>>

\* time.sleep(30), the last statement of the loop body.
PollSleep ==
    /\ pc = "poll_sleep"
    /\ sleeps' = Count(sleeps)
    /\ sleepsSinceQuery' = Count(sleepsSinceQuery)
    /\ sleepDelays' = sleepDelays \cup {SleepSeconds}
    /\ Goto("poll_test")
    /\ UNCHANGED <<misc, calls, s3v, locs, gluev, job_run_status, queries,
                   firstTerminal, queryFailed, trainv, pipev, epv, batchv>>

\* ------------------------------------------------------------- training
\* Mutant: the terminal status is looked at, and anything but SUCCEEDED
\* stops the script.
PrepareTrainingChecked ==
    /\ pc = "prepare_training"
    /\ IF job_run_status = "SUCCEEDED"
       THEN /\ s3_train_data' = S3Uri(s3_output_bucket, s3_output_key_prefix, "train")
            /\ s3_validation_data' =
                   S3Uri(s3_output_bucket, s3_output_key_prefix, "validation")
            /\ Goto("fit")
       ELSE /\ UNCHANGED <<s3_train_data, s3_validation_data>>
            /\ Halt("prepare_training")
    /\ UNCHANGED <<misc, calls, s3v, locs, gluev, pollv, trainingStatus,
                   trainingInputs, training_job_name, pipev, epv, batchv>>

\* Mutant: the training data is looked for under the input prefix.
PrepareTrainingFromInput ==
    /\ pc = "prepare_training"
    /\ s3_train_data' = S3Uri(s3_input_bucket, s3_input_key_prefix, "train")
    /\ s3_validation_data' = S3Uri(s3_input_bucket, s3_input_key_prefix, "validation")
    /\ Goto("fit")
    /\ UNCHANGED <<misc, calls, s3v, locs, gluev, pollv, trainingStatus,
                   trainingInputs, training_job_name, pipev, epv, batchv>>

\* s3_train_data, s3_validation_data and the estimator's data channels.
PrepareTraining ==
    /\ pc = "prepare_training"
    /\ s3_train_data' = S3Uri(s3_output_bucket, s3_output_key_prefix, "train")
    /\ s3_validation_data' = S3Uri(s3_output_bucket, s3_output_key_prefix, "validation")
    /\ Goto("fit")
    /\ UNCHANGED <<misc, calls, s3v, locs, gluev, pollv, trainingStatus,
                   trainingInputs, training_job_name, pipev, epv, batchv>>

\* data_channels = {'train': train_data, 'validation': validation_data}
DataChannels == [train |-> s3_train_data, validation |-> s3_validation_data]

\* The name fit gives the training job it starts.
TrainingJobNames == {"blazingtext-job"}

\* bt_model.fit(inputs=data_channels, logs=True): the training job is
\* submitted ...
FitSubmit ==
    /\ pc = "fit"
    /\ calls' = Append(calls, Call("fit", s3_train_data))
    /\ \E ok \in BOOLEAN :
        IF ok
        THEN /\ trainingStatus' = "InProgress"
             /\ trainingInputs' = <<DataChannels>>
             /\ training_job_name' \in TrainingJobNames
             /\ Goto("fit_wait")
        ELSE /\ UNCHANGED <<trainingStatus, trainingInputs, training_job_name>>
             /\ Halt("fit")
    /\ UNCHANGED <<misc, s3v, locs, gluev, pollv, s3_train_data,
                   s3_validation_data, pipev, epv, batchv>>

\* The remote training job ends.
TrainingProgress ==
    /\ trainingStatus = "InProgress"
    /\ trainingStatus' \in {"Completed", "Failed", "Stopped"}
    /\ UNCHANGED <<ctl, misc, calls, s3v, locs, gluev, pollv, s3_train_data,
                   s3_validation_data, trainingInputs, training_job_name, pipev,
                   epv, batchv>>

\* Mutant: fit(..., wait=False) does not wait for the job.
FitWaitSkipped ==
    /\ pc = "fit_wait"
    /\ Goto("build_pipeline")
    /\ UNCHANGED <<misc, calls, s3v, locs, gluev, pollv, trainv, pipev, epv, batchv>>

\* ... and fit returns when the job has ended: normally when it ended as
\* Completed or as Stopped (by train_max_run, say), raising when it Failed.
FitWait ==
    /\ pc = "fit_wait"
    /\ trainingStatus # "InProgress"
    /\ IF trainingStatus \in {"Completed", "Stopped"}
       THEN Goto("build_pipeline") ELSE Halt("fit")
    /\ UNCHANGED <<misc, calls, s3v, locs, gluev, pollv, trainv, pipev, epv, batchv>>

\* ------------------------------------------------- the inference pipeline
\* What travels between the client, the containers and back.
Msg(fmt, schema, data) == [fmt |-> fmt, schema |-> schema, data |-> data, error |-> FALSE]
ErrorMsg == [fmt |-> "error", schema |-> "", data |-> <<>>, error |-> TRUE]

\* Mutant: the schema is left out of the environment of the container.
SparkMLModelWithoutSchema(data) ==
    [kind |-> "sparkml", model_data |-> data,
     env |-> [SAGEMAKER_SPARKML_SCHEMA |-> "",
              SAGEMAKER_DEFAULT_INVOCATIONS_ACCEPT |-> params.accept]]

\* SparkMLModel(model_data=sparkml_data, env={...})
SparkMLModel(data) ==
    [kind |-> "sparkml", model_data |-> data,
     env |-> [SAGEMAKER_SPARKML_SCHEMA |-> schema_json,
              SAGEMAKER_DEFAULT_INVOCATIONS_ACCEPT |-> params.accept]]

\* Model(model_data=bt_model.model_data, image=training_image)
BlazingTextModel(data) ==
    [kind |-> "blazingtext", model_data |-> data,
     env |-> [SAGEMAKER_SPARKML_SCHEMA |-> "",
              SAGEMAKER_DEFAULT_INVOCATIONS_ACCEPT |-> ""]]

\* Mutant: the list in the other order.
PipelineModelsReversed(sparkml_model, bt_model) == <<bt_model, sparkml_model>>

\* models=[sparkml_model, bt_model]
PipelineModels(sparkml_model, bt_model) == <<sparkml_model, bt_model>>

RECURSIVE JoinLines(_)
JoinLines(lines) ==
    IF lines = <<>> THEN ""
    ELSE IF Len(lines) = 1 THEN lines[1]
    ELSE lines[1] \o "\n" \o JoinLines(Tail(lines))

\* The feature transformer of the first container: text to tokens.
Tokenize(text) == "tok:" \o text

\* The classifier of the second container: tokens to a label.
Classify(tokens) ==
    CASE tokens = "tok:convair" -> "Company"
      [] tokens = "tok:berwick" -> "EducationalInstitution"
      [] OTHER -> "Unknown"

\* The value of the one input column of the schema: the one field of the
\* CSV row, the one string of the JSON data list.
InputValue(input) == JoinLines(input.data)

\* The schema the container parses a request with: the one inside the
\* payload when there is one, else the one of its environment.
SchemaUsed(m, input) ==
    IF input.schema # "" THEN input.schema ELSE m.env.SAGEMAKER_SPARKML_SCHEMA

\* The SparkML serving container: parses CSV or JSON with the schema of the
\* payload, else of its environment, and answers in the format its
\* environment names (CSV when it names none).
SparkMLInvoke(m, input) ==
    IF \/ input.error
       \/ input.fmt \notin {CONTENT_TYPE_CSV, CONTENT_TYPE_JSON}
       \/ SchemaUsed(m, input) = ""
    THEN ErrorMsg
    ELSE Msg(IF m.env.SAGEMAKER_DEFAULT_INVOCATIONS_ACCEPT # ""
             THEN m.env.SAGEMAKER_DEFAULT_INVOCATIONS_ACCEPT ELSE CONTENT_TYPE_CSV,
             SchemaUsed(m, input),
             <<Tokenize(InputValue(input))>>)

\* The BlazingText container: parses application/jsonlines;data=text only,
\* and answers in the format asked for (JSON when none is).
BlazingTextInvoke(m, input, accept) ==
    IF input.error \/ input.fmt # JsonLinesText
    THEN ErrorMsg
    ELSE Msg(IF accept = "" THEN CONTENT_TYPE_JSON ELSE accept, "",
             <<Classify(JoinLines(input.data))>>)

Invoke(m, input, accept) ==
    IF m.kind = "sparkml" THEN SparkMLInvoke(m, input)
    ELSE BlazingTextInvoke(m, input, accept)

\* The containers of a pipeline model are invoked in the order of its list,
\* each on the output of the one before; an error ends the chain.
RECURSIVE Chain(_, _, _, _)
Chain(models, i, input, accept) ==
    IF i > Len(models) THEN <<>>
    ELSE LET out == Invoke(models[i], input, accept)
         IN  <<[stage |-> models[i].kind, input |-> input, output |-> out]>>
             \o (IF out.error THEN <<>> ELSE Chain(models, i + 1, out, accept))

ServePipeline(models, request, accept) == Chain(models, 1, request, accept)

Response(trace) == IF trace = <<>> THEN ErrorMsg ELSE trace[Len(trace)].output

Registered(name) == \E m \in registeredModels : m.name = name
ModelNamed(name) == CHOOSE m \in registeredModels : m.name = name

\* s3_output_location, the output_path of the estimator.
s3_output_location == S3Uri(s3_output_bucket, s3_output_key_prefix, "bt_model")

\* bt_model.model_data: the artifact of the training job fit started, under
\* the output_path of the estimator.
ModelData == s3_output_location \o "/" \o training_job_name \o "/output/model.tar.gz"

\* sparkml_data, the two model objects, model_name and the PipelineModel;
\* reading bt_model.model_data asks the service for the training job and can
\* raise, after sparkml_data was assigned and before model_name is.
BuildPipeline ==
    /\ pc = "build_pipeline"
    /\ sparkml_data' = S3Uri(s3_model_bucket, s3_model_key_prefix, "model.tar.gz")
    /\ calls' = Append(calls, Call("describe_training_job", training_job_name))
    /\ \E ok \in BOOLEAN :
        IF ok
        THEN /\ model_name' = "inference-pipeline-" \o timestamp_prefix
             /\ sm_model' =
                  [name |-> model_name',
                   models |-> PipelineModels(SparkMLModel(sparkml_data'),
                                             BlazingTextModel(ModelData))]
             /\ Goto("deploy")
        ELSE /\ UNCHANGED <<model_name, sm_model>>
             /\ Halt("build_pipeline")
    /\ UNCHANGED <<misc, s3v, locs, gluev, pollv, trainv, registeredModels,
                   epv, batchv>>

\* Mutant: deployment refuses a pipeline whose first container answers in a
\* format the second does not parse.
DeploySubmitTypeChecked ==
    /\ pc = "deploy"
    /\ endpoint_name' = "inference-pipeline-ep-" \o timestamp_prefix
    /\ calls' = Append(calls, Call("deploy", endpoint_name'))
    /\ \E ok \in BOOLEAN :
        IF ok /\ sm_model.models[1].env.SAGEMAKER_DEFAULT_INVOCATIONS_ACCEPT = JsonLinesText
        THEN /\ registeredModels' = registeredModels \cup {sm_model}
             /\ endpoint' = [name |-> endpoint_name', model |-> sm_model.name,
                             status |-> "Creating"]
             /\ Goto("deploy_wait")
        ELSE /\ UNCHANGED <<registeredModels, endpoint>>
             /\ Halt("deploy")
    /\ UNCHANGED <<misc, s3v, locs, gluev, pollv, trainv, sparkml_data, model_name,
                   sm_model, invocations, responses, batchv>>

\* sm_model.deploy(..., endpoint_name=endpoint_name): registers the pipeline
\* model and asks for the endpoint ...
DeploySubmit ==
    /\ pc = "deploy"
    /\ endpoint_name' = "inference-pipeline-ep-" \o timestamp_prefix
    /\ calls' = Append(calls, Call("deploy", endpoint_name'))
    /\ \E ok \in BOOLEAN :
        IF ok
        THEN /\ registeredModels' = registeredModels \cup {sm_model}
             /\ endpoint' = [name |-> endpoint_name', model |-> sm_model.name,
                             status |-> "Creating"]
             /\ Goto("deploy_wait")
        ELSE /\ UNCHANGED <<registeredModels, endpoint>>
             /\ Halt("deploy")
    /\ UNCHANGED <<misc, s3v, locs, gluev, pollv, trainv, sparkml_data, model_name,
                   sm_model, invocations, responses, batchv>>

\* The remote endpoint comes into service, or fails to.
EndpointProgress ==
    /\ endpoint.status = "Creating"
    /\ \E st \in {"InService", "Failed"} : endpoint' = [endpoint EXCEPT !.status = st]
    /\ UNCHANGED <<ctl, misc, calls, s3v, locs, gluev, pollv, trainv, pipev,
                   endpoint_name, invocations, responses, batchv>>

\* ... and deploy returns when the endpoint is up, raising when it failed.
DeployWait ==
    /\ pc = "deploy_wait"
    /\ endpoint.status # "Creating"
    /\ IF endpoint.status = "InService" THEN Goto("predict_csv") ELSE Halt("deploy")
    /\ UNCHANGED <<misc, calls, s3v, locs, gluev, pollv, trainv, pipev, epv, batchv>>

\* Mutant: the request is inside try/finally and the endpoint is deleted
\* when it fails.
PredictWithCleanup(step, next, request, accept) ==
    /\ pc = step
    /\ \E ok \in BOOLEAN :
        IF ok /\ endpoint.status = "InService" /\ endpoint.name = endpoint_name
        THEN LET trace == ServePipeline(ModelNamed(endpoint.model).models, request, accept)
             IN  /\ invocations' = trace
                 /\ responses' = Append(responses, Response(trace))
                 /\ IF Response(trace).error
                    THEN /\ calls' = calls \o <<Call("predict", request.fmt),
                                                Call("delete_endpoint", endpoint_name)>>
                         /\ endpoint' = [endpoint EXCEPT !.status = "Deleting"]
                         /\ Halt(step)
                    ELSE /\ calls' = Append(calls, Call("predict", request.fmt))
                         /\ UNCHANGED endpoint
                         /\ Goto(next)
        ELSE /\ calls' = calls \o <<Call("predict", request.fmt),
                                     Call("delete_endpoint", endpoint_name)>>
             /\ endpoint' = [endpoint EXCEPT !.status = "Deleting"]
             /\ UNCHANGED <<invocations, responses>>
             /\ Halt(step)
    /\ UNCHANGED <<misc, s3v, locs, gluev, pollv, trainv, pipev, endpoint_name,
                   batchv>>

\* RealTimePredictor(endpoint=endpoint_name, ...).predict(payload): one
\* request to the endpoint; a failed call or an error answer raises.
Predict(step, next, request, accept) ==
    /\ pc = step
    /\ calls' = Append(calls, Call("predict", request.fmt))
    /\ \E ok \in BOOLEAN :
        IF ok /\ endpoint.status = "InService" /\ endpoint.name = endpoint_name
        THEN LET trace == ServePipeline(ModelNamed(endpoint.model).models, request, accept)
             IN  /\ invocations' = trace
                 /\ responses' = Append(responses, Response(trace))
                 /\ IF Response(trace).error THEN Halt(step) ELSE Goto(next)
        ELSE /\ UNCHANGED <<invocations, responses>>
             /\ Halt(step)
    /\ UNCHANGED <<misc, s3v, locs, gluev, pollv, trainv, pipev, endpoint_name,
                   endpoint, batchv>>

\* payload = "Convair was an american aircraft manufacturing company ..."
CsvPayload == Msg(CONTENT_TYPE_CSV, "", <<params.csv_text>>)

\* payload = {"data": ["Berwick secondary college is situated ..."]}
JsonPayload == Msg(CONTENT_TYPE_JSON, params.json_schema, <<params.json_text>>)

PredictCsv == Predict("predict_csv", "predict_json", CsvPayload, "application/jsonlines")

PredictJson == Predict("predict_json", "delete_endpoint", JsonPayload, "")

\* Mutant: the optional cell is left out.
DeleteEndpointSkipped ==
    /\ pc = "delete_endpoint"
    /\ Goto("download_batch")
    /\ UNCHANGED <<misc, calls, s3v, locs, gluev, pollv, trainv, pipev, epv, batchv>>

\* Mutant: the cleanup cell deletes the model together with the endpoint.
DeleteEndpointAndModel ==
    /\ pc = "delete_endpoint"
    /\ calls' = Append(calls, Call("delete_endpoint", endpoint_name))
    /\ \E ok \in BOOLEAN :
        IF ok /\ endpoint.name = endpoint_name
              /\ endpoint.status \notin {"Deleting", "Deleted"}
        THEN /\ endpoint' = [endpoint EXCEPT !.status = "Deleting"]
             /\ registeredModels' = {m \in registeredModels : m.name # endpoint.model}
             /\ Goto("download_batch")
        ELSE /\ UNCHANGED <<endpoint, registeredModels>>
             /\ Halt("delete_endpoint")
    /\ UNCHANGED <<misc, s3v, locs, gluev, pollv, trainv, sparkml_data, model_name,
                   sm_model, endpoint_name, invocations, responses, batchv>>

\* sm_client.delete_endpoint(EndpointName=endpoint_name)
DeleteEndpoint ==
    /\ pc = "delete_endpoint"
    /\ calls' = Append(calls, Call("delete_endpoint", endpoint_name))
    /\ \E ok \in BOOLEAN :
        IF ok /\ endpoint.name = endpoint_name
              /\ endpoint.status \notin {"Deleting", "Deleted"}
        THEN /\ endpoint' = [endpoint EXCEPT !.status = "Deleting"]
             /\ Goto("download_batch")
        ELSE /\ endpoint' = endpoint
             /\ Halt("delete_endpoint")
    /\ UNCHANGED <<misc, s3v, locs, gluev, pollv, trainv, pipev, endpoint_name,
                   invocations, responses, batchv>>

\* The service removes an endpoint whose deletion it has accepted.
EndpointRemoval ==
    /\ endpoint.status = "Deleting"
    /\ endpoint' = [endpoint EXCEPT !.status = "Deleted"]
    /\ UNCHANGED <<ctl, misc, calls, s3v, locs, gluev, pollv, trainv, pipev,
                   endpoint_name, invocations, responses, batchv>>

\* ---------------------------------------------------------- batch transform
\* !wget .../batch_input_dbpedia.csv: a file of one input string per line.
DownloadBatchInput ==
    /\ pc = "download_batch"
    /\ batchInput' \in SeqsUpTo(Texts, MaxLines)
    /\ Goto("upload_batch")
    /\ UNCHANGED <<misc, calls, s3v, locs, gluev, pollv, trainv, pipev, epv,
                   transformJob, batchPos, batchOutput>>

UploadBatch ==
    /\ UploadData("upload_batch", "transform", "batch_input_dbpedia.csv",
                  default_bucket, "batch")
    /\ UNCHANGED <<batchInput, transformJob, batchPos, batchOutput>>

\* sagemaker.transformer.Transformer(model_name=model_name, ...)
TransformerConfig ==
    [model_name |-> model_name,
     strategy |-> "SingleRecord",
     assemble_with |-> "Line",
     output_path |-> S3Uri(default_bucket, "batch_output/dbpedia", timestamp_prefix),
     accept |-> CONTENT_TYPE_CSV]

\* Mutant: split_type left out of the call.
TransformArgsUnsplit ==
    [data |-> S3Uri(default_bucket, "batch", "batch_input_dbpedia.csv"),
     content_type |-> CONTENT_TYPE_CSV,
     split_type |-> "None"]

\* transformer.transform(data=input_data_path, content_type=..., split_type=...)
TransformArgs ==
    [data |-> S3Uri(default_bucket, "batch", "batch_input_dbpedia.csv"),
     content_type |-> CONTENT_TYPE_CSV,
     split_type |-> "Line"]

\* The transform job is submitted; an unknown model is refused.
Transform ==
    /\ pc = "transform"
    /\ calls' = Append(calls, Call("transform", TransformerConfig.model_name))
    /\ \E ok \in BOOLEAN :
        IF ok /\ Registered(TransformerConfig.model_name)
        THEN /\ transformJob' =
                  [status |-> "InProgress",
                   model_name |-> TransformerConfig.model_name,
                   data |-> TransformArgs.data,
                   content_type |-> TransformArgs.content_type,
                   split_type |-> TransformArgs.split_type,
                   strategy |-> TransformerConfig.strategy,
                   assemble_with |-> TransformerConfig.assemble_with,
                   accept |-> TransformerConfig.accept,
                   output_path |-> TransformerConfig.output_path]
             /\ batchPos' = 0
             /\ batchOutput' = <<>>
             /\ Goto("transformer_wait")
        ELSE /\ UNCHANGED <<transformJob, batchPos, batchOutput>>
             /\ Halt("transform")
    /\ UNCHANGED <<misc, s3v, locs, gluev, pollv, trainv, pipev, epv, batchInput>>

\* The requests a transform job makes of a file: split_type 'Line' makes
\* each line a record, no split makes the file one record; strategy
\* 'SingleRecord' sends each record alone, 'MultiRecord' sends them together.
BatchRequests(file, split_type, strategy) ==
    LET records == IF split_type = "Line"
                   THEN [i \in 1..Len(file) |-> <<file[i]>>]
                   ELSE IF file = <<>> THEN <<>> ELSE <<file>>
    IN  IF strategy = "SingleRecord" \/ records = <<>>
        THEN records
        ELSE <<file>>

\* The output file after one more answer: assemble_with 'Line' puts each
\* answer on a line of its own, otherwise the answers are run together.
Assemble(output, answer, assemble_with) ==
    IF assemble_with = "Line" \/ output = <<>>
    THEN Append(output, <<answer>>)
    ELSE <<output[1] \o <<answer>>>>

\* The remote job serves its next request through the pipeline model.
TransformRecord ==
    /\ transformJob.status = "InProgress"
    /\ LET requests == BatchRequests(batchInput, transformJob.split_type,
                                     transformJob.strategy)
       IN  /\ batchPos < Len(requests)
           /\ LET trace == ServePipeline(
                               ModelNamed(transformJob.model_name).models,
                               Msg(transformJob.content_type, "", requests[batchPos + 1]),
                               transformJob.accept)
              IN  /\ invocations' = trace
                  /\ IF Response(trace).error
                     THEN /\ transformJob' = [transformJob EXCEPT !.status = "Failed"]
                          /\ UNCHANGED <<batchPos, batchOutput>>
                     ELSE /\ batchPos' = batchPos + 1
                          /\ batchOutput' = Assemble(batchOutput,
                                                     Response(trace).data[1],
                                                     transformJob.assemble_with)
                          /\ UNCHANGED transformJob
    /\ UNCHANGED <<ctl, misc, calls, s3v, locs, gluev, pollv, trainv, pipev,
                   endpoint_name, endpoint, responses, batchInput>>

\* The remote job ends: completed when every request was served, or failed.
TransformEnd ==
    /\ transformJob.status = "InProgress"
    /\ \E st \in {"Completed", "Failed"} :
        /\ st = "Completed" =>
             batchPos = Len(BatchRequests(batchInput, transformJob.split_type,
                                          transformJob.strategy))
        /\ transformJob' = [transformJob EXCEPT !.status = st]
    /\ UNCHANGED <<ctl, misc, calls, s3v, locs, gluev, pollv, trainv, pipev, epv,
                   batchInput, batchPos, batchOutput>>

\* transformer.wait(): returns when the job has ended, raising when it failed.
TransformerWait ==
    /\ pc = "transformer_wait"
    /\ transformJob.status # "InProgress"
    /\ IF transformJob.status = "Completed" THEN Goto("done") ELSE Halt("transformer_wait")
    /\ UNCHANGED <<misc, calls, s3v, locs, gluev, pollv, trainv, pipev, epv, batchv>>

ScriptStep ==
    \/ CreateBucket \/ UploadTrain \/ UploadTest \/ UploadScript
    \/ UploadPythonDep \/ UploadJarDep
    \/ DefineLocations \/ CreateJob \/ StartJobRun
    \/ PollInit \/ PollTest \/ PollQuery \/ PollSleep
    \/ PrepareTraining \/ FitSubmit \/ FitWait
    \/ BuildPipeline \/ DeploySubmit \/ DeployWait
    \/ PredictCsv \/ PredictJson \/ DeleteEndpoint
    \/ DownloadBatchInput \/ UploadBatch \/ Transform \/ TransformerWait

EnvStep ==
    \/ GlueProgress \/ TrainingProgress \/ EndpointProgress \/ EndpointRemoval
    \/ TransformRecord \/ TransformEnd

Next == ScriptStep \/ EnvStep

Spec == Init /\ [][Next]_vars

ParamSpec == ParamInit /\ [][Next]_vars

\* The interpreter keeps running the script while a statement can run.
FairSpec == Spec /\ WF_vars(ScriptStep)

\* ================================================================ claims
\* The statements of the script, in the order the notebook runs them.
StepOrder ==
    <<"create_bucket", "upload_train", "upload_test", "upload_script",
      "upload_python_dep", "upload_jar_dep", "define_locations", "create_job",
      "start_job_run", "poll_init", "poll_test", "poll_query", "poll_sleep",
      "prepare_training", "fit", "fit_wait", "build_pipeline", "deploy",
      "deploy_wait", "predict_csv", "predict_json", "delete_endpoint",
      "download_batch", "upload_batch", "transform", "transformer_wait", "done">>

StepIndex(step) == CHOOSE i \in 1..Len(StepOrder) : StepOrder[i] = step

\* The statement control is at, or stopped at.
Position == IF pc = "halted" THEN haltedAt ELSE pc

\* Control has left the poll loop.
PastPoll == StepIndex(Position) > StepIndex("poll_sleep")

HasCall(op) == \E i \in 1..Len(calls) : calls[i].op = op

IsPrefix(a, b) == Len(a) <= Len(b) /\ \A i \in 1..Len(a) : a[i] = b[i]

\* C1: whenever a status query has returned a terminal value the poll loop
\* is left, and the value job_run_status then holds is the first terminal
\* value a query returned.
C1_PollerTermination ==
    /\ [](PastPoll => (firstTerminal \in TerminalValues /\ job_run_status = firstTerminal))
    /\ ((firstTerminal # "") ~> PastPoll)

\* The loop was left after at least three queries, on STOPPED.
C1_Witness == pc = "prepare_training" /\ job_run_status = "STOPPED" /\ queries >= 3

\* C2: control is past the poll loop only with a terminal job_run_status,
\* and while no query returns a terminal value (and none fails) the loop
\* goes on querying for ever.
C2_NeverReturnsEarly ==
    /\ [](PastPoll => job_run_status \in TerminalValues)
    /\ ((<>(pc = "poll_test") /\ [](firstTerminal = "" /\ pc # "halted"))
            => []<>(pc = "poll_sleep"))

\* The loop is still querying after the counters have stopped counting,
\* the remote run having ended in a state the loop does not know.
C2_Witness ==
    pc = "poll_query" /\ queries = MaxCount /\ sleeps = MaxCount
    /\ job_run_status = "TIMEOUT"

\* C3 (as stated): every status query after the first is preceded, since
\* the query before it, by exactly one sleep of the fixed delay.
C3_OneSleepBetweenQueries ==
    (pc = "poll_query") => (sleepsSinceQuery = 1 /\ sleepDelays = {SleepSeconds})

\* What a complete run of the script issues, in order, as far as it has got.
ScriptCalls ==
    <<CreateBucketCall,
      Call("upload_data", S3Uri(default_bucket, "input/dbpedia", "train.csv")),
      Call("upload_data", S3Uri(default_bucket, "input/dbpedia", "test.csv")),
      Call("upload_data", S3Uri(default_bucket, "codes", "dbpedia_processing.py")),
      Call("upload_data", S3Uri(default_bucket, "dependencies/python", "python.zip")),
      Call("upload_data",
           S3Uri(default_bucket, "dependencies/jar", "mleap_spark_assembly.jar")),
      Call("create_job", "sparkml-dbpedia-" \o timestamp_prefix),
      Call("start_job_run", "sparkml-dbpedia-" \o timestamp_prefix),
      Call("fit", S3Uri(default_bucket, timestamp_prefix \o "/dbpedia", "train")),
      Call("describe_training_job", training_job_name),
      Call("deploy", "inference-pipeline-ep-" \o timestamp_prefix),
      Call("predict", "text/csv"),
      Call("predict", "application/json"),
      Call("delete_endpoint", "inference-pipeline-ep-" \o timestamp_prefix),
      Call("upload_data", S3Uri(default_bucket, "batch", "batch_input_dbpedia.csv")),
      Call("transform", "inference-pipeline-" \o timestamp_prefix)>>

\* C4: the pipeline model is the list [SparkML, BlazingText], and every
\* inference, of the endpoint and of the batch job, invokes the SparkML
\* container first and then the BlazingText container on its output.
C4_PipelineOrder ==
    /\ (sm_model # NoModel) =>
          /\ Len(sm_model.models) = 2
          /\ sm_model.models[1].kind = "sparkml"
          /\ sm_model.models[2].kind = "blazingtext"
    /\ (invocations # <<>>) =>
          /\ invocations[1].stage = "sparkml"
          /\ ~invocations[1].output.error =>
                /\ Len(invocations) = 2
                /\ invocations[2].stage = "blazingtext"
                /\ invocations[2].input = invocations[1].output

\* Both requests to the endpoint were answered and the batch job has
\* served its second line.
C4_Witness ==
    /\ Len(responses) = 2 /\ transformJob.status = "InProgress" /\ batchPos = 2
    /\ Len(invocations) = 2 /\ invocations[1].input.data = <<batchInput[2]>>

\* C5: the output of a completed batch job has one line per input line,
\* the i-th being the answer for the i-th input line.
C5_LineOrderPreserved ==
    (transformJob.status = "Completed") =>
        /\ Len(batchOutput) = Len(batchInput)
        /\ \A i \in 1..Len(batchInput) :
              batchOutput[i] = <<Classify(Tokenize(batchInput[i]))>>

\* A completed job over three lines of which the first two differ.
C5_Witness ==
    /\ transformJob.status = "Completed" /\ Len(batchInput) >= 3
    /\ batchInput[1] # batchInput[2] /\ Len(batchOutput) = Len(batchInput)

\* C6: after create_bucket failed with BucketAlreadyOwnedByYou the script
\* did not stop there, works on the same bucket, and issues the calls of a
\* run that created the bucket, each with the same arguments.
C6_IdempotentBucketCreation ==
    /\ (error_code = "BucketAlreadyOwnedByYou") =>
          /\ Position # "create_bucket"
          /\ bucketExists
    /\ (error_code \in {"", "BucketAlreadyOwnedByYou"}) =>
          /\ default_bucket = "aws-glue-" \o Account \o "-" \o region
          /\ IsPrefix(calls, ScriptCalls)
          /\ (StepIndex(Position) > StepIndex("upload_test")) =>
                {"input/dbpedia/train.csv", "input/dbpedia/test.csv"} \subseteq s3Objects

\* A run on a bucket that was already owned has come to its end.
C6_Witness ==
    error_code = "BucketAlreadyOwnedByYou" /\ pc = "done" /\ Len(calls) = Len(ScriptCalls)

\* C7 (as stated): after create_bucket failed with a code other than
\* BucketAlreadyOwnedByYou the script has stopped at that statement and
\* has issued no later call.
C7_HaltOnRemoteFailure ==
    (error_code \notin {"", "BucketAlreadyOwnedByYou"}) =>
        /\ pc = "halted" /\ haltedAt = "create_bucket"
        /\ calls = <<CreateBucketCall>>

\* C8: the steps after the poll loop do not look at job_run_status: each of
\* them goes on to the next statement, stopping only when a call it has
\* issued fails, and issues its call with the arguments of every other run.
C8_SilentContinue ==
    [][(pc \in {"prepare_training", "fit", "build_pipeline", "deploy"} /\ pc' # pc) =>
          /\ (pc' = "halted") => (calls' # calls)
          /\ (pc' # "halted") => (pc' = StepOrder[StepIndex(pc) + 1])
          /\ IsPrefix(calls', ScriptCalls')
          /\ (pc' = "fit_wait") =>
                trainingInputs' =
                    <<[train |-> S3Uri(default_bucket, timestamp_prefix \o "/dbpedia",
                                       "train"),
                       validation |-> S3Uri(default_bucket,
                                            timestamp_prefix \o "/dbpedia",
                                            "validation")]>>
      ]_vars

\* The job run FAILED and the pipeline trained after it is deployed.
C8_Witness ==
    job_run_status = "FAILED" /\ pc = "predict_csv" /\ endpoint.status = "InService"

\* The remote operations the script has started that have not ended.
RemoteInProgress ==
    {o \in {"job_run", "training", "endpoint", "transform"} :
        \/ o = "job_run" /\ jobRunState \in NonFinalStates
        \/ o = "training" /\ trainingStatus = "InProgress"
        \/ o = "endpoint" /\ endpoint.status \in {"Creating", "Deleting"}
        \/ o = "transform" /\ transformJob.status = "InProgress"}

\* The remote operations the script waits for before it goes on.
AwaitedInProgress == {o \in RemoteInProgress : o = "endpoint" => endpoint.status = "Creating"}

\* The order of the steps: the run after the job definition, training
\* after a terminal job-run status was seen, the endpoint after the training
\* job ended as Completed or Stopped, the requests after the endpoint came
\* up, the batch job after the delete call.
EachAfterThePrevious ==
    /\ (jobRunState # "NONE") => (HasCall("create_job") /\ JobDefined(job_name))
    /\ (trainingStatus # "None") =>
          (job_run_status \in TerminalValues /\ jobRunState \in FinalStates)
    /\ (endpoint.status # "None") => (trainingStatus \in {"Completed", "Stopped"})
    /\ HasCall("predict") => (endpoint.status \in {"InService", "Deleting", "Deleted"})
    /\ (transformJob.status # "None") =>
          (HasCall("delete_endpoint") /\ endpoint.status \in {"Deleting", "Deleted"})

\* C9 (as stated): at most one remote operation of the script is in
\* progress at any time, and each step starts after the one before it.
C9_StrictlySequential ==
    /\ Cardinality(RemoteInProgress) <= 1
    /\ EachAfterThePrevious

\* C9: at most one of the remote operations the script waits for (job run,
\* training, endpoint creation, transform) is in progress at any time, and
\* each step starts after the one before it; the deletion of the endpoint,
\* which the script does not wait for, is the only operation that goes on
\* beside another.
C9_SequentialButForDeletion ==
    /\ Cardinality(AwaitedInProgress) <= 1
    /\ Cardinality(RemoteInProgress) > 1 =>
          (endpoint.status = "Deleting" /\ RemoteInProgress = {"endpoint", "transform"})
    /\ EachAfterThePrevious

\* The transform job runs while the endpoint is still being deleted.
C9_Witness ==
    /\ transformJob.status = "InProgress" /\ endpoint.status = "Deleting"
    /\ batchPos >= 1 /\ Len(calls) = Len(ScriptCalls)

DeleteIndex == CHOOSE i \in 1..Len(calls) : calls[i].op = "delete_endpoint"

\* An endpoint in service leaves that state only by the delete call.
PersistsUntilDeleteCall ==
    (endpoint.status = "InService" /\ endpoint'.status # "InService") =>
        /\ pc = "delete_endpoint"
        /\ calls' = Append(calls, Call("delete_endpoint", endpoint.name))

\* The delete call comes after the CSV and then the JSON request were
\* answered, and no request follows it.
DeleteAfterBothRequests ==
    HasCall("delete_endpoint") =>
        /\ Len(responses) = 2
        /\ ~responses[1].error /\ ~responses[2].error
        /\ DeleteIndex > 2
        /\ calls[DeleteIndex - 2] = Call("predict", CONTENT_TYPE_CSV)
        /\ calls[DeleteIndex - 1] = Call("predict", CONTENT_TYPE_JSON)
        /\ \A i \in 1..Len(calls) : i > DeleteIndex => calls[i].op # "predict"

\* C10 (as stated): an endpoint in service leaves that state only by the
\* delete call; the delete call comes after both requests were answered; no
\* request follows it; at the end of a complete run no endpoint remains.
C10_EndpointLifecycle ==
    /\ [][PersistsUntilDeleteCall]_vars
    /\ []DeleteAfterBothRequests
    /\ [](pc = "done" => (HasCall("delete_endpoint") /\ endpoint.status = "Deleted"))

\* C10: an endpoint in service leaves that state only by the delete call;
\* the delete call comes after both requests were answered; no request
\* follows it; at the end of a complete run the deletion of the endpoint has
\* been accepted: the endpoint is gone or is being deleted, and is not in
\* service.
C10_EndpointLifecycleDeleting ==
    /\ [][PersistsUntilDeleteCall]_vars
    /\ []DeleteAfterBothRequests
    /\ [](pc = "done" =>
            (HasCall("delete_endpoint") /\ endpoint.status \in {"Deleting", "Deleted"}))
    /\ [][endpoint.status \in {"Deleting", "Deleted"} =>
            endpoint'.status \in {"Deleting", "Deleted"}]_vars

\* A complete run: the endpoint was deployed and asked twice, and at the end
\* of the run its deletion is still under way.
C10_Witness ==
    pc = "done" /\ endpoint.status = "Deleting" /\ endpoint.name = endpoint_name
    /\ Len(responses) = 2

\* C11: deployment does not look at the format the first container answers
\* in: whatever accept the SparkML model is configured with, the deploy step
\* can register the model and create the endpoint; when that format is not
\* the one the BlazingText container parses, the first request is the first
\* thing to fail, the SparkML stage answers it, the error is the answer of
\* the BlazingText stage, and the script halts at that request.
C11_MismatchFailsAtRequest ==
    /\ (pc = "deploy") => ENABLED (DeploySubmit /\ pc' = "deploy_wait")
    /\ (params.accept # JsonLinesText /\ pc = "halted" /\ haltedAt = "deploy") =>
          (HasCall("deploy") /\ (endpoint = NoEndpoint \/ endpoint.status = "Failed"))
    /\ (params.accept # JsonLinesText /\ responses # <<>>) =>
          /\ endpoint.status = "InService" /\ Registered(endpoint.model)
          /\ Len(responses) = 1 /\ responses[1].error
          /\ Len(invocations) = 2
          /\ invocations[1].stage = "sparkml" /\ ~invocations[1].output.error
          /\ invocations[1].output.fmt = params.accept
          /\ invocations[2].stage = "blazingtext" /\ invocations[2].output.error
          /\ pc = "halted" /\ haltedAt = "predict_csv"

\* The accept is text/csv, the endpoint is in service and the CSV request
\* came back as an error of the second stage.
C11_Witness ==
    /\ params.accept = CONTENT_TYPE_CSV /\ endpoint.status = "InService"
    /\ Len(responses) = 1 /\ responses[1].error
    /\ Len(invocations) = 2 /\ invocations[2].output.error
    /\ haltedAt = "predict_csv"

\* C13: the SparkML stage parses a request that carries a schema with that
\* schema, and a request that carries none with the schema its model was
\* given at deployment (SAGEMAKER_SPARKML_SCHEMA = schema_json).
C13_SchemaPrecedence ==
    (invocations # <<>> /\ invocations[1].stage = "sparkml") =>
        LET first == invocations[1]
        IN  /\ (first.input.schema # "") => first.output.schema = first.input.schema
            /\ (first.input.schema = "") => first.output.schema = schema_json

\* The JSON request carried its own schema, which is not the one of the
\* deployment, and was answered.
C13_Witness ==
    /\ Len(responses) = 2 /\ ~responses[2].error /\ pc = "delete_endpoint"
    /\ invocations[1].input.schema = PayloadSchema
    /\ invocations[1].output.schema = PayloadSchema
    /\ PayloadSchema # schema_json

\* C14: once a status query has failed, the script is halted at that query:
\* no training, deployment or transform call was or is issued, nothing was
\* trained or deployed, and from then on no query is counted, no sleep is
\* taken, no call is made and the script does not move.
C14_NoRetryAfterQueryError ==
    /\ [](queryFailed =>
            /\ pc = "halted" /\ haltedAt \in {"poll_init", "poll_query"}
            /\ ~HasCall("fit") /\ ~HasCall("deploy") /\ ~HasCall("transform")
            /\ trainingStatus = "None" /\ endpoint = NoEndpoint
            /\ transformJob = NoJob)
    /\ [][queryFailed =>
            UNCHANGED <<pc, haltedAt, queries, sleeps, sleepDelays, job_run_status,
                        calls>>]_vars

\* The third query, inside the loop, failed after two that were answered,
\* while the job was still running.
C14_Witness ==
    /\ queryFailed /\ haltedAt = "poll_query" /\ queries = 3 /\ sleeps = 1
    /\ job_run_status = "RUNNING"

\* C15: the transform job is asked for with the model_name the endpoint was
\* deployed from; when control is at the transform call that model is
\* registered, and it is the pipeline model the script built; the
\* delete_endpoint step changes neither the registered models nor the
\* script's model objects.
C15_ModelOutlivesEndpoint ==
    /\ []((pc = "transform" \/ HasCall("transform")) =>
            /\ TransformerConfig.model_name = endpoint.model
            /\ Registered(endpoint.model)
            /\ ModelNamed(endpoint.model) = sm_model)
    /\ [](transformJob # NoJob =>
            /\ transformJob.model_name = endpoint.model
            /\ calls[Len(calls)] = Call("transform", endpoint.model))
    /\ [][pc = "delete_endpoint" => UNCHANGED pipev]_vars

\* The endpoint is deleted and the transform job runs on the model it served.
C15_Witness ==
    /\ endpoint.status = "Deleted" /\ transformJob.status = "InProgress"
    /\ transformJob.model_name = endpoint.model /\ Registered(endpoint.model)

\* C16: the training and validation inputs and the SparkML artifact are
\* formed from the output and model locations the Glue job run was started
\* with, and no location changes once the job run has been submitted.
C16_ParameterThreading ==
    /\ [](trainingInputs # <<>> =>
            /\ trainingInputs[1].train =
                  S3Uri(jobRunArgs[1].S3_OUTPUT_BUCKET,
                        jobRunArgs[1].S3_OUTPUT_KEY_PREFIX, "train")
            /\ trainingInputs[1].validation =
                  S3Uri(jobRunArgs[1].S3_OUTPUT_BUCKET,
                        jobRunArgs[1].S3_OUTPUT_KEY_PREFIX, "validation"))
    /\ [](sm_model # NoModel =>
            /\ sparkml_data =
                  S3Uri(jobRunArgs[1].S3_MODEL_BUCKET,
                        jobRunArgs[1].S3_MODEL_KEY_PREFIX, "model.tar.gz")
            /\ sm_model.models[1].model_data = sparkml_data)
    /\ [](jobRunArgs # <<>> =>
            /\ jobRunArgs[1].S3_OUTPUT_BUCKET = s3_output_bucket
            /\ jobRunArgs[1].S3_OUTPUT_KEY_PREFIX = s3_output_key_prefix
            /\ jobRunArgs[1].S3_MODEL_BUCKET = s3_model_bucket
            /\ jobRunArgs[1].S3_MODEL_KEY_PREFIX = s3_model_key_prefix)
    /\ [][jobRunArgs # <<>> => UNCHANGED locs]_vars

\* Training was given its inputs and the pipeline model was built.
C16_Witness ==
    /\ trainingInputs # <<>> /\ sm_model # NoModel /\ jobRunArgs # <<>>
    /\ trainingInputs[1].train =
          "s3://" \o s3_output_bucket \o "/" \o s3_output_key_prefix \o "/train"
    /\ s3_output_key_prefix # s3_input_key_prefix

\* C17 (as stated): if the remote job run ends and from then on reports a
\* final state for ever (SUCCEEDED, FAILED, STOPPED or TIMEOUT), the poll
\* loop is eventually left (or ended by an error of a query).
C17_LoopEndsOnEveryFinalState ==
    (<>[](jobRunState \in FinalStates)) => <>(PastPoll \/ pc = "halted")

\* C18 (as stated): once a query has returned a terminal value no query
\* follows, and whenever the poller is not between a query and its sleep the
\* number of sleeps is the number of queries issued minus one; counted
\* while the counters count.
C18_SleepsAreQueriesMinusOne ==
    /\ (firstTerminal # "") => pc \notin {"poll_init", "poll_query"}
    /\ (queries > 0 /\ queries < MaxCount /\ pc # "poll_sleep") => sleeps = queries - 1

\* C18: once a query has returned a terminal value no query follows; the
\* query before the loop is followed by no sleep and every answered query
\* of the loop by exactly one, so the number of sleeps is the number of
\* queries minus one when the loop is left on a terminal value (one query
\* and no sleep when the first query returns it); a query of the loop that
\* raises is followed by no sleep, and then the number of sleeps is the
\* number of queries issued minus two; counted while the counters count.
C18_QueryAndSleepCount ==
    /\ [](firstTerminal # "" => pc \notin {"poll_init", "poll_query"})
    /\ []((queries < MaxCount /\ queries > 0 /\ ~queryFailed) =>
            /\ (Position \in {"poll_test", "poll_query"}) => sleeps = queries - 1
            /\ (Position = "poll_sleep") => sleeps = queries - 2
            /\ PastPoll => sleeps = queries - 1)
    /\ []((queries < MaxCount /\ queryFailed) =>
            /\ (haltedAt = "poll_init") => (queries = 1 /\ sleeps = 0)
            /\ (haltedAt = "poll_query") => sleeps = queries - 2)
    /\ [](PastPoll => ~queryFailed)
    /\ []((firstTerminal # "" /\ queries = 1) => sleeps = 0)
    /\ [][firstTerminal # "" =>
            /\ queries' = queries
            /\ (pc # "poll_sleep") => sleeps' = sleeps]_vars

\* The loop was left on the third query: three queries, two sleeps.
C18_Witness ==
    /\ pc = "prepare_training" /\ queries = 3 /\ sleeps = 2
    /\ firstTerminal = "SUCCEEDED" /\ job_run_status = "SUCCEEDED"

\* C19: when the script is halted at one of the two sample requests, no
\* delete_endpoint call was or is issued and the endpoint is in service.
C19_NoCleanupOnHalt ==
    (pc = "halted" /\ haltedAt \in {"predict_csv", "predict_json"}) =>
        /\ ~HasCall("delete_endpoint")
        /\ endpoint.name = endpoint_name /\ endpoint.status = "InService"
        /\ Registered(endpoint.model)

\* The CSV request was answered and the JSON request failed.
C19_Witness ==
    /\ pc = "halted" /\ haltedAt = "predict_json" /\ endpoint.status = "InService"
    /\ Len(responses) >= 1 /\ ~responses[1].error
    /\ calls[Len(calls)] = Call("predict", CONTENT_TYPE_JSON)
====
